---- MODULE Spec2Model ----
(***************************************************************************)
(* perform-wasm: the result-handoff store generated by build_perform!      *)
(* (src/src/lib.rs) and the request gate its consumer drives              *)
(* (src/egui_test/src/main.rs).                                            *)
(*                                                                         *)
(* The store is one HashMap<Uuid, Result<V, PerformError>> behind one      *)
(* tokio Mutex.  A blocking store operation (lock_and_do_mut, lock_and_do) *)
(* is two steps: the lock().await that completes when the mutex is free,   *)
(* and the closure on the map, after which the guard is dropped.  A        *)
(* try_lock operation is one step.  Futures handed to spawn_local are      *)
(* independent tasks that the scheduler runs in any order.                 *)
(***************************************************************************)
EXTENDS Integers, FiniteSets, Sequences, TLC

\* ---- bounds of the model ----
NumValues == 2        \* distinct outputs a wrapped operation can produce
MaxRequests == 2      \* operations one gate launches, one after the other

\* Two sessions share the store: the one SinglelineMyText hands to its Taker,
\* which is driven through the gate only, and one used directly, as
\* tests::second_test does, which runs one operation.
Gated == {"g"}
Direct == {"d"}
Uuids == Gated \cup Direct
Values == 1..NumValues

VARIABLES
  store,      \* the HashMap behind STORE: a function from the present ids to entries
  lock,       \* the holder of the store's Mutex, or Free
  kind,       \* per id: "none", or the activation form that created the session
  act,        \* per id: position of the activation insert
  perf,       \* per id: the session's latest perform future (pc, inline, fut)
  launched,   \* per id: operations launched on the session
  call,       \* per id: the blocking take or clone its user is inside, or "idle"
  gate,       \* per id: "Idle" or "InFlight"
  delivered,  \* per id: take/try_take calls that returned a completed value
  taken,      \* per directly used id: a take or try_take has run its closure on it
  ret         \* the call that returned in the step just taken: session, operation, result

vars == <<store, lock, kind, act, perf, launched, call, gate, delivered, taken, ret>>

\* ---- PerformError, Result<V, PerformError> ----
Free == <<"free">>
NotInitialized == [tag |-> "NotInitialized", v |-> 0]
Locked == [tag |-> "Locked", v |-> 0]
Empty == [tag |-> "Empty", v |-> 0]
Ok(v) == [tag |-> "Ok", v |-> v]
IsOk(r) == r.tag = "Ok"
IsErr(r) == r.tag \in {"NotInitialized", "Locked", "Empty"}

\* ---- HashMap ----
\* an insert that overwrites every entry of the map
insert_floods(h, k, e) == [x \in (DOMAIN h) \cup {k} |-> e]

insert(h, k, e) == [x \in (DOMAIN h) \cup {k} |-> IF x = k THEN e ELSE h[x]]
remove_entry(h, k) == [x \in (DOMAIN h) \ {k} |-> h[x]]
contains(h, k) == k \in DOMAIN h

\* ---- the closures of build_perform! ----
\* an activation that never registers the placeholder
activate_insert_skips(h, id) == h

\* an activation that registers a value instead of the placeholder
activate_insert_ready(h, id) == insert(h, id, Ok(1))

\* activate / activate_with_spawn_local: hash_map.insert(id, Err(Empty))
activate_insert(h, id) == insert(h, id, Empty)

\* a perform that returns without writing its value
perform_insert_skips(h, id, value) == h

\* perform / perform_with_spawn_local: hash_map.insert(id, Ok(value))
perform_insert(h, id, value) == insert(h, id, Ok(value))

\* take that reads the entry and leaves it in the map
take_remove_keeps(h, id) == h

\* a take that removes the entry only when it holds a completed value
take_remove_spares(h, id) ==
  IF contains(h, id) /\ IsOk(h[id]) THEN remove_entry(h, id) ELSE h

\* take, try_take: hash_map.remove_entry(&self.id)
take_remove(h, id) == remove_entry(h, id)

\* take, try_take: Some(result) => result.map_err(|_| Empty), None => NotInitialized
take_result(h, id) ==
  IF contains(h, id)
    THEN IF IsOk(h[id]) THEN h[id] ELSE Empty
    ELSE NotInitialized

\* clone: Some(Ok(v)) => Ok(v.clone()), Some(Err(_)) => Empty, None => NotInitialized
clone_result(h, id) ==
  IF contains(h, id)
    THEN IF IsOk(h[id]) THEN Ok(h[id].v) ELSE Empty
    ELSE NotInitialized

\* try_lock_and_do_mut: the closure's result when try_lock succeeds, else Locked
try_lock_and_do_mut(l, r) == IF l = Free THEN r ELSE Locked

\* a try_lock_and_do_mut that runs the closure on the map without the guard
try_lock_map_unguarded(l, h, h2) == h2

\* try_lock_and_do_mut: the map after the call (the closure runs under the guard only)
try_lock_map(l, h, h2) == IF l = Free THEN h2 ELSE h

\* lock_and_do_mut, lock_and_do: global_data().lock().await completes when the
\* mutex is free
lock_acquirable(l) == l = Free

\* a try_lock_and_do_mut that awaits the mutex as lock_and_do_mut does
try_lock_waits(l) == l = Free

\* try_lock_and_do_mut: global_data().try_lock() returns whoever holds the mutex
try_lock_returns(l) == TRUE

\* a try_take that reads the entry and leaves it in the map
try_take_map_keeps(l, h, id) == h

\* Session::try_take: the result and the map it leaves
try_take_result(l, h, id) == try_lock_and_do_mut(l, take_result(h, id))
try_take_map(l, h, id) == try_lock_map(l, h, take_remove(h, id))

\* ---- sessions ----
NoPerf == [pc |-> "none", inline |-> FALSE, fut |-> 0]
NoCall == [id |-> "none", op |-> "none", res |-> NotInitialized]
Call(s, op, res) == [id |-> s, op |-> op, res |-> res]

\* the Session value has been returned to its creator
Returned(s) ==
  \/ kind[s] = "spawn"
  \/ kind[s] = "blocking" /\ act[s] = "done"

InFlightPerf(s) == perf[s].pc \in {"running", "locking", "holding"}

\* completion writes executed on the session
writes(s) == IF InFlightPerf(s) THEN launched[s] - 1 ELSE launched[s]

Init ==
  /\ store = <<>>
  /\ lock = Free
  /\ kind = [s \in Uuids |-> "none"]
  /\ act = [s \in Uuids |-> "none"]
  /\ perf = [s \in Uuids |-> NoPerf]
  /\ launched = [s \in Uuids |-> 0]
  /\ call = [s \in Uuids |-> "idle"]
  /\ gate = [s \in Uuids |-> "Idle"]
  /\ delivered = [s \in Uuids |-> 0]
  /\ taken = [s \in Direct |-> FALSE]
  /\ ret = NoCall

\* ---- activation ----
\* Session::activate up to its lock().await; Uuid::new_v4 yields an unused id
Activate(s) ==
  /\ kind[s] = "none"
  /\ kind' = [kind EXCEPT ![s] = "blocking"]
  /\ act' = [act EXCEPT ![s] = "locking"]
  /\ UNCHANGED <<store, lock, perf, launched, call, gate, delivered, taken>>
  /\ ret' = NoCall

\* Session::activate_with_spawn_local: the insert is left to a spawned task
ActivateWithSpawnLocal(s) ==
  /\ kind[s] = "none"
  /\ kind' = [kind EXCEPT ![s] = "spawn"]
  /\ act' = [act EXCEPT ![s] = "locking"]
  /\ UNCHANGED <<store, lock, perf, launched, call, gate, delivered, taken>>
  /\ ret' = NoCall

\* the activation's lock_and_do_mut acquires the mutex
ActivateLock(s) ==
  /\ act[s] = "locking"
  /\ lock_acquirable(lock)
  /\ lock' = <<"activate", s>>
  /\ act' = [act EXCEPT ![s] = "holding"]
  /\ UNCHANGED <<store, kind, perf, launched, call, gate, delivered, taken>>
  /\ ret' = NoCall

\* the activation's closure runs and the guard is dropped
ActivateInsert(s) ==
  /\ act[s] = "holding"
  /\ store' = activate_insert(store, s)
  /\ lock' = Free
  /\ act' = [act EXCEPT ![s] = "done"]
  /\ UNCHANGED <<kind, perf, launched, call, gate, delivered, taken>>
  /\ ret' = NoCall

\* ---- perform ----
\* Session::perform(fut) is called and starts awaiting fut
Perform(s, fut) ==
  /\ s \in Direct /\ Returned(s)
  /\ launched[s] = 0
  /\ perf' = [perf EXCEPT ![s] = [pc |-> "running", inline |-> TRUE, fut |-> fut]]
  /\ launched' = [launched EXCEPT ![s] = @ + 1]
  /\ UNCHANGED <<store, lock, kind, act, call, gate, delivered, taken>>
  /\ ret' = NoCall

\* Session::perform_with_spawn_local(fut): the future is handed to spawn_local
PerformWithSpawnLocal(s, fut) ==
  /\ s \in Direct /\ Returned(s)
  /\ launched[s] = 0
  /\ perf' = [perf EXCEPT ![s] = [pc |-> "running", inline |-> FALSE, fut |-> fut]]
  /\ launched' = [launched EXCEPT ![s] = @ + 1]
  /\ UNCHANGED <<store, lock, kind, act, call, gate, delivered, taken>>
  /\ ret' = NoCall

\* let value = fut.await: the wrapped operation completes
FutComplete(s) ==
  /\ perf[s].pc = "running"
  /\ perf' = [perf EXCEPT ![s].pc = "locking"]
  /\ UNCHANGED <<store, lock, kind, act, launched, call, gate, delivered, taken>>
  /\ ret' = NoCall

\* a perform that takes the mutex first and awaits its operation under it
PerformLock_early(s) ==
  /\ perf[s].pc \in {"running", "locking"}
  /\ lock_acquirable(lock)
  /\ lock' = <<"perform", s>>
  /\ perf' = [perf EXCEPT ![s].pc = IF @ = "locking" THEN "holding" ELSE @]
  /\ UNCHANGED <<store, kind, act, launched, call, gate, delivered, taken>>
  /\ ret' = NoCall

\* perform's lock_and_do_mut acquires the mutex
PerformLock(s) ==
  /\ perf[s].pc = "locking"
  /\ lock_acquirable(lock)
  /\ lock' = <<"perform", s>>
  /\ perf' = [perf EXCEPT ![s].pc = "holding"]
  /\ UNCHANGED <<store, kind, act, launched, call, gate, delivered, taken>>
  /\ ret' = NoCall

\* the completion write; an inline perform then returns to its caller
PerformInsert(s) ==
  /\ perf[s].pc = "holding"
  /\ store' = perform_insert(store, s, perf[s].fut)
  /\ lock' = Free
  /\ perf' = [perf EXCEPT ![s].pc = "done"]
  /\ ret' = IF perf[s].inline THEN Call(s, "perform", Ok(perf[s].fut)) ELSE NoCall
  /\ UNCHANGED <<kind, act, launched, call, gate, delivered, taken>>

\* ---- take, clone, try_take ----
count(d, s, r) == IF IsOk(r) THEN [d EXCEPT ![s] = @ + 1] ELSE d

\* Session::take is called and awaits the mutex
Take(s) ==
  /\ s \in Direct /\ Returned(s)
  /\ call[s] = "idle"
  /\ call' = [call EXCEPT ![s] = "take"]
  /\ UNCHANGED <<store, lock, kind, act, perf, launched, gate, delivered, taken>>
  /\ ret' = NoCall

TakeLock(s) ==
  /\ call[s] = "take"
  /\ lock_acquirable(lock)
  /\ lock' = <<"take", s>>
  /\ call' = [call EXCEPT ![s] = "taking"]
  /\ UNCHANGED <<store, kind, act, perf, launched, gate, delivered, taken>>
  /\ ret' = NoCall

\* a take that returns with the guard still alive
TakeReturn_holds(s) ==
  /\ call[s] = "taking"
  /\ store' = take_remove(store, s)
  /\ lock' = lock
  /\ call' = [call EXCEPT ![s] = "idle"]
  /\ ret' = Call(s, "take", take_result(store, s))
  /\ delivered' = count(delivered, s, take_result(store, s))
  /\ taken' = [taken EXCEPT ![s] = TRUE]
  /\ UNCHANGED <<kind, act, perf, launched, gate>>

\* take's closure runs, the guard is dropped and take returns
TakeReturn(s) ==
  /\ call[s] = "taking"
  /\ store' = take_remove(store, s)
  /\ lock' = Free
  /\ call' = [call EXCEPT ![s] = "idle"]
  /\ ret' = Call(s, "take", take_result(store, s))
  /\ delivered' = count(delivered, s, take_result(store, s))
  /\ taken' = [taken EXCEPT ![s] = TRUE]
  /\ UNCHANGED <<kind, act, perf, launched, gate>>

\* Session::clone is called and awaits the mutex
Clone(s) ==
  /\ s \in Direct /\ Returned(s)
  /\ call[s] = "idle"
  /\ call' = [call EXCEPT ![s] = "clone"]
  /\ UNCHANGED <<store, lock, kind, act, perf, launched, gate, delivered, taken>>
  /\ ret' = NoCall

CloneLock(s) ==
  /\ call[s] = "clone"
  /\ lock_acquirable(lock)
  /\ lock' = <<"clone", s>>
  /\ call' = [call EXCEPT ![s] = "cloning"]
  /\ UNCHANGED <<store, kind, act, perf, launched, gate, delivered, taken>>
  /\ ret' = NoCall

\* a clone that removes the entry it reads, as take does
CloneReturn_removes(s) ==
  /\ call[s] = "cloning"
  /\ store' = take_remove(store, s)
  /\ lock' = Free
  /\ call' = [call EXCEPT ![s] = "idle"]
  /\ ret' = Call(s, "clone", clone_result(store, s))
  /\ UNCHANGED <<kind, act, perf, launched, gate, delivered, taken>>

\* clone's closure runs on the shared map, the guard is dropped and clone returns
CloneReturn(s) ==
  /\ call[s] = "cloning"
  /\ lock' = Free
  /\ call' = [call EXCEPT ![s] = "idle"]
  /\ ret' = Call(s, "clone", clone_result(store, s))
  /\ UNCHANGED <<store, kind, act, perf, launched, gate, delivered, taken>>

\* Session::try_take, one step from call to return
TryTake(s) ==
  /\ s \in Direct /\ Returned(s)
  /\ try_lock_returns(lock)
  /\ store' = try_take_map(lock, store, s)
  /\ ret' = Call(s, "try_take", try_take_result(lock, store, s))
  /\ delivered' = count(delivered, s, try_take_result(lock, store, s))
  /\ taken' = [taken EXCEPT ![s] = @ \/ lock = Free]
  /\ UNCHANGED <<lock, kind, act, perf, launched, call, gate>>

\* ---- the request gate (Taker) ----
\* request(operation): Idle launches the detached run once; InFlight is a no-op
gate_launches(g) == g = "Idle"

Ignored(fut) == [tag |-> "Ignored", v |-> fut]
Launched(fut) == [tag |-> "Launched", v |-> fut]

Request(s, fut) ==
  /\ s \in Gated /\ Returned(s)
  /\ IF gate_launches(gate[s])
       THEN /\ launched[s] < MaxRequests
            /\ perf' = [perf EXCEPT ![s] = [pc |-> "running", inline |-> FALSE, fut |-> fut]]
            /\ launched' = [launched EXCEPT ![s] = @ + 1]
            /\ gate' = [gate EXCEPT ![s] = "InFlight"]
            /\ ret' = Call(s, "request", Launched(fut))
       ELSE /\ ret' = Call(s, "request", Ignored(fut))
            /\ UNCHANGED <<perf, launched, gate>>
  /\ UNCHANGED <<store, lock, kind, act, call, delivered, taken>>

\* a gate that returns to Idle on every poll
gate_after_resets(g, r) == "Idle"

\* a gate that returns to Idle whenever try_take got past the lock
gate_after_unlocked(g, r) == IF r = Locked THEN g ELSE "Idle"

\* a gate that stays InFlight after handing the value over
gate_after_stays(g, r) == g

\* poll(): InFlight calls try_take; a completed value returns the gate to Idle
\* and is handed over (Some), anything else leaves it InFlight and yields None
gate_after(g, r) == IF IsOk(r) THEN "Idle" ELSE g
NothingInFlight == [tag |-> "NothingInFlight", v |-> 0]
PollSome(c) == c.op = "poll" /\ IsOk(c.res)
PollNone(c) == c.op = "poll" /\ ~IsOk(c.res)

Poll(s) ==
  /\ s \in Gated /\ Returned(s)
  /\ IF gate[s] = "InFlight"
       THEN /\ try_lock_returns(lock)
            /\ store' = try_take_map(lock, store, s)
            /\ ret' = Call(s, "poll", try_take_result(lock, store, s))
            /\ delivered' = count(delivered, s, try_take_result(lock, store, s))
            /\ gate' = [gate EXCEPT ![s] = gate_after(@, try_take_result(lock, store, s))]
       ELSE /\ ret' = Call(s, "poll", NothingInFlight)
            /\ UNCHANGED <<store, delivered, gate>>
  /\ UNCHANGED <<lock, kind, act, perf, launched, call, taken>>

Next ==
  \/ \E s \in Uuids : Activate(s)
  \/ \E s \in Uuids : ActivateWithSpawnLocal(s)
  \/ \E s \in Uuids : ActivateLock(s)
  \/ \E s \in Uuids : ActivateInsert(s)
  \/ \E s \in Uuids, fut \in Values : Perform(s, fut)
  \/ \E s \in Uuids, fut \in Values : PerformWithSpawnLocal(s, fut)
  \/ \E s \in Uuids : FutComplete(s)
  \/ \E s \in Uuids : PerformLock(s)
  \/ \E s \in Uuids : PerformInsert(s)
  \/ \E s \in Uuids : Take(s)
  \/ \E s \in Uuids : TakeLock(s)
  \/ \E s \in Uuids : TakeReturn(s)
  \/ \E s \in Uuids : Clone(s)
  \/ \E s \in Uuids : CloneLock(s)
  \/ \E s \in Uuids : CloneReturn(s)
  \/ \E s \in Uuids : TryTake(s)
  \/ \E s \in Uuids, fut \in Values : Request(s, fut)
  \/ \E s \in Uuids : Poll(s)

Spec == Init /\ [][Next]_vars

\* ---- contention for the lock under the code's scheduling ----
\* The lock never looks at a value, and one operation per session gives the
\* session every waiter it can have at once: its activation insert, its
\* completion write and its caller's take or clone.  LockNext is Next with
\* every operation yielding the same value and each session running one.
LockNext ==
  \/ \E s \in Uuids : Activate(s)
  \/ \E s \in Uuids : ActivateWithSpawnLocal(s)
  \/ \E s \in Uuids : ActivateLock(s)
  \/ \E s \in Uuids : ActivateInsert(s)
  \/ \E s \in Uuids : Perform(s, 1)
  \/ \E s \in Uuids : PerformWithSpawnLocal(s, 1)
  \/ \E s \in Uuids : FutComplete(s)
  \/ \E s \in Uuids : PerformLock(s)
  \/ \E s \in Uuids : PerformInsert(s)
  \/ \E s \in Uuids : Take(s)
  \/ \E s \in Uuids : TakeLock(s)
  \/ \E s \in Uuids : TakeReturn(s)
  \/ \E s \in Uuids : Clone(s)
  \/ \E s \in Uuids : CloneLock(s)
  \/ \E s \in Uuids : CloneReturn(s)
  \/ \E s \in Uuids : TryTake(s)
  \/ \E s \in Uuids : (gate[s] = "InFlight" \/ launched[s] = 0) /\ Request(s, 1)
  \/ \E s \in Uuids : Poll(s)

\* tokio's Mutex queues its waiters and hands the lock over in FIFO order, so
\* a lock().await that finds the mutex free again and again is eventually
\* served (strong fairness); the closure of a lock holder is synchronous code
\* that runs to its end and drops the guard (weak fairness).  Nothing obliges
\* a caller to call, an operation to complete, or a poll to be made.
FairSpec ==
  /\ Init /\ [][LockNext]_vars
  /\ WF_vars(\E s \in Uuids : \/ ActivateInsert(s) \/ PerformInsert(s)
                               \/ TakeReturn(s) \/ CloneReturn(s))
  /\ \A s \in Uuids : SF_vars(ActivateLock(s)) /\ SF_vars(PerformLock(s))
  /\ \A s \in Direct : SF_vars(TakeLock(s) \/ CloneLock(s))

\* ---- claims ----
\* a take or try_take on session s returns in this step (a poll calls try_take
\* when its gate is InFlight)
TakeStep(s) ==
  /\ ret'.id = s
  /\ \/ ret'.op \in {"take", "try_take"}
     \/ ret'.op = "poll" /\ gate[s] = "InFlight"

\* C1 as stated: after the one completion write of a session, at most one take or
\* try_take returns the completed value, and every take or try_take after that
\* successful one returns NotInitialized.
C1_Original ==
  [][\A s \in Uuids :
       /\ launched'[s] = 1 => delivered'[s] <= 1
       /\ (launched[s] = 1 /\ delivered[s] >= 1 /\ TakeStep(s))
            => ret'.res = NotInitialized]_vars

\* C1: after the one completion write of a session, at most one take or try_take
\* returns the completed value; every take or try_take after that successful one
\* returns an error and never the value again: Locked for a try_take that finds
\* the mutex held, Empty when the detached activation insert landed after the
\* successful take, NotInitialized otherwise.
C1_SingleDelivery ==
  [][\A s \in Uuids :
       /\ launched'[s] = 1 => delivered'[s] <= 1
       /\ (launched[s] = 1 /\ delivered[s] >= 1 /\ TakeStep(s))
            => /\ delivered'[s] = delivered[s]
               /\ ret'.id = s
               /\ IsErr(ret'.res)
               /\ ret'.res = Locked => (ret'.op = "try_take" /\ lock # Free)
               /\ ret'.res = Empty => kind[s] = "spawn"]_vars

\* a take returned NotInitialized after an earlier take had delivered the value
C1_Witness ==
  \E s \in Uuids :
    /\ delivered[s] = 1
    /\ ret = Call(s, "take", NotInitialized)

\* a try_take on session s returns in this step
TryStep(s) ==
  /\ ret'.id = s
  /\ \/ ret'.op = "try_take"
     \/ ret'.op = "poll" /\ gate[s] = "InFlight"

\* the completion write of session s executes in this step
WriteStep(s) == perf[s].pc = "holding" /\ perf'[s].pc = "done"

\* C2 (no loss), as a condition every state must meet for the claim to hold:
\* when the one operation requested on a gate has completed and written its
\* value and no poll has returned it yet, the value is still stored under the
\* session's identifier, where a later poll finds it.  The completion write is
\* the only write of the value, so a state that breaks this never delivers it.
C2_NoLoss ==
  \A s \in Gated :
    (launched[s] = 1 /\ perf[s].pc = "done" /\ delivered[s] = 0)
      => (contains(store, s) /\ store[s] = Ok(perf[s].fut))

\* operations launched on session s whose value no take has returned yet: the
\* future still on its way to the store, and a completed value waiting in it
outstanding(s) ==
  (IF InFlightPerf(s) THEN 1 ELSE 0)
    + (IF contains(store, s) /\ IsOk(store[s]) THEN 1 ELSE 0)

\* C3: a request made while the gate is InFlight changes nothing and launches
\* nothing, whatever operation it is given; at every moment at most one
\* operation launched on a gate's session has not been taken yet, and none
\* when the gate is Idle, so that each launch finds none outstanding.
C3_AtMostOneInFlight ==
  [][\A s \in Gated :
       /\ outstanding(s)' <= 1
       /\ gate'[s] = "Idle" => outstanding(s)' = 0
       /\ launched'[s] - delivered'[s] <= 1
       /\ (gate[s] = "InFlight" /\ ret'.id = s /\ ret'.op = "request")
            => /\ UNCHANGED <<store, lock, perf, launched, gate, delivered>>
               /\ ret'.res.tag = "Ignored"]_vars

\* a second request, with another operation, was ignored while the first runs
C3_Witness ==
  \E s \in Gated :
    /\ ret.id = s /\ ret.op = "request" /\ ret.res.tag = "Ignored"
    /\ perf[s].pc = "running" /\ perf[s].fut # ret.res.v
    /\ launched[s] = 1

\* C4: wherever a session's holder stands, try_take (and the poll that calls it)
\* can take its step at once, and when another context holds the store lock
\* that step returns Locked and leaves the lock with its holder.
C4_NonBlockingPoll ==
  /\ \A s \in Direct : Returned(s) =>
       /\ ENABLED TryTake(s)
       /\ lock # Free =>
            ENABLED (TryTake(s) /\ ret' = Call(s, "try_take", Locked) /\ lock' = lock)
  /\ \A s \in Gated : Returned(s) =>
       /\ ENABLED Poll(s)
       /\ (lock # Free /\ gate[s] = "InFlight") =>
            ENABLED (Poll(s) /\ ret' = Call(s, "poll", Locked) /\ lock' = lock)

\* a try_take returned Locked while another context holds the lock
C4_Witness ==
  \E s \in Direct : ret = Call(s, "try_take", Locked) /\ lock # Free

\* C5: a try_take that finds the store lock held returns Locked and changes
\* neither the store, the lock nor any task; the completion write then stores
\* the value and releases the lock, and the session's next try_take with the
\* lock free returns that value; for a session whose activation insert came
\* first (the blocking activate) so does any later try_take with the lock free,
\* as long as no take has returned the value.
C5_LockedConsumesNothing ==
  [][\A s \in Uuids :
       /\ (lock # Free /\ TryStep(s))
            => /\ ret'.res = Locked
               /\ UNCHANGED <<store, lock, kind, act, perf, launched, call, gate,
                              delivered, taken>>
       /\ WriteStep(s)
            => (lock' = Free /\ contains(store', s) /\ store'[s] = Ok(perf[s].fut))
       /\ (lock = Free /\ contains(store, s) /\ IsOk(store[s]) /\ TryStep(s))
            => (ret'.res = store[s] /\ ~contains(store', s))
       /\ (lock = Free /\ kind[s] = "blocking" /\ perf[s].pc = "done"
             /\ launched[s] - delivered[s] = 1 /\ TryStep(s))
            => ret'.res = Ok(perf[s].fut)]_vars

\* a try_take returned Locked while the session's own completion write holds the lock
C5_Witness ==
  \E s \in Direct :
    /\ ret = Call(s, "try_take", Locked)
    /\ lock = <<"perform", s>>
    /\ ~taken[s] /\ contains(store, s)

\* C6 (idle after take), as a condition every state must meet for the claim to
\* hold: after a poll has returned the first value and the gate, Idle again, has
\* launched a second operation on the same session, the value that second
\* operation wrote stays stored under the session's identifier until a poll
\* returns it.
C6_SecondRoundKept ==
  \A s \in Gated :
    (launched[s] = 2 /\ delivered[s] = 1 /\ perf[s].pc = "done")
      => (contains(store, s) /\ store[s] = Ok(perf[s].fut))

\* C7: on a session created by the blocking activate, once the inline perform
\* has returned, the first take to return yields the operation's value, and a
\* take after that successful one yields NotInitialized.
C7_InlineWritesBeforeReturn ==
  [][\A s \in Direct :
       (kind[s] = "blocking" /\ perf[s].inline /\ perf[s].pc = "done"
          /\ ret'.id = s /\ ret'.op = "take")
         => /\ delivered[s] = 0 => ret' = Call(s, "take", Ok(perf[s].fut))
            /\ delivered[s] >= 1 => ret' = Call(s, "take", NotInitialized)]_vars

\* activate, inline perform, then a take that returned the operation's value
C7_Witness ==
  \E s \in Direct :
    /\ kind[s] = "blocking" /\ perf[s].inline /\ perf[s].pc = "done"
    /\ delivered[s] = 1
    /\ ret = Call(s, "take", Ok(perf[s].fut))

\* C8 as stated: on a session created by the blocking activate, every take or
\* try_take that returns before any perform was started reports Empty.
C8_Original ==
  [][\A s \in Direct :
       (kind[s] = "blocking" /\ launched[s] = 0 /\ TakeStep(s))
         => ret'.res = Empty]_vars

\* C8: on a session created by the blocking activate and before any perform,
\* the first take or try_take to run its closure reports Empty; a try_take that
\* finds the lock held reports Locked; once the placeholder has been taken a
\* take or try_take reports NotInitialized; none reports a completed value.
C8_NotReadyBeforeRun ==
  [][\A s \in Direct :
       (kind[s] = "blocking" /\ launched[s] = 0 /\ TakeStep(s))
         => /\ ret'.id = s
            /\ ~IsOk(ret'.res)
            /\ (~taken[s] /\ taken'[s]) => ret'.res = Empty
            /\ ~taken'[s] => ret'.res = Locked
            /\ taken[s] => ret'.res \in {NotInitialized, Locked}
            /\ ret'.res = Locked => (ret'.op = "try_take" /\ lock # Free)]_vars

\* the first try_take on a freshly activated session reported Empty
C8_Witness ==
  \E s \in Direct :
    /\ kind[s] = "blocking" /\ launched[s] = 0
    /\ ret = Call(s, "try_take", Empty)

\* C9: no store write replaces an entry that holds a completed value: an
\* identifier that maps to Ok(v) keeps that entry until a take removes it.
C9_DoneNeverOverwritten ==
  [][\A s \in Uuids :
       (contains(store, s) /\ IsOk(store[s]) /\ contains(store', s))
         => store'[s] = store[s]]_vars

\* C10: when the completion write of an operation launched through the gate
\* executes, the session's identifier maps to the Empty placeholder.
C10_WritePrecondition ==
  [][\A s \in Gated :
       WriteStep(s) => (contains(store, s) /\ store[s] = Empty)]_vars

\* a poll on session s, made while its gate is InFlight, returns in this step
PollStep(s) == ret'.id = s /\ ret'.op = "poll" /\ gate[s] = "InFlight"

\* the store holds a completed value for s and the mutex is free: the one
\* situation in which try_take yields a value
Ready(s) == lock = Free /\ contains(store, s) /\ IsOk(store[s])

\* C11: a poll made while the gate is InFlight whose try_take yields Empty,
\* Locked or NotInitialized (no completed value stored, or the mutex held)
\* returns None, leaves the gate InFlight, and launches or relaunches nothing;
\* the only thing a poll hands to its caller is a value or None.
C11_TransientAbsorbed ==
  [][\A s \in Gated :
       /\ (PollStep(s) /\ ~Ready(s))
            => /\ ret'.res \in {Empty, Locked, NotInitialized}
               /\ PollNone(ret')
               /\ gate'[s] = "InFlight"
               /\ UNCHANGED <<perf, launched, delivered, lock>>
       /\ (ret'.id = s /\ ret'.op = "poll") => (PollSome(ret') \/ PollNone(ret'))]_vars

\* a poll found the identifier unknown, the detached activation insert not
\* having run yet, while the requested operation is still running
C11_Witness ==
  \E s \in Gated :
    /\ ret = Call(s, "poll", NotInitialized)
    /\ gate[s] = "InFlight" /\ perf[s].pc = "running"
    /\ kind[s] = "spawn" /\ act[s] # "done"

\* C12: a poll that returns Some(value) leaves the gate Idle with no operation
\* in flight and the value gone from the store; a poll made after that delivery
\* with no request in between finds the gate Idle, calls nothing, returns None
\* and delivers nothing.
C12_NoSecondDelivery ==
  [][\A s \in Gated :
       /\ (ret'.id = s /\ PollSome(ret'))
            => /\ gate'[s] = "Idle"
               /\ ~InFlightPerf(s)'
               /\ ~contains(store', s)
       /\ (gate[s] = "Idle" /\ delivered[s] >= 1 /\ ret'.id = s /\ ret'.op = "poll")
            => /\ PollNone(ret')
               /\ ret'.res = NothingInFlight
               /\ UNCHANGED <<store, lock, perf, launched, gate, delivered>>]_vars

\* the poll after the one that delivered the value returned None
C12_Witness ==
  \E s \in Gated :
    /\ ret = Call(s, "poll", NothingInFlight)
    /\ launched[s] = 1 /\ delivered[s] = 1 /\ gate[s] = "Idle"

\* the store entry of identifier s, or a mark for "absent"
entry(h, s) == IF contains(h, s) THEN h[s] ELSE [tag |-> "absent", v |-> 0]

\* this step belongs to session s: it moves one of the session's calls or
\* tasks, or returns one of its calls
StepOf(s) ==
  \/ kind'[s] # kind[s] \/ act'[s] # act[s]
  \/ perf'[s] # perf[s] \/ call'[s] # call[s]
  \/ ret'.id = s

\* C13: a step of one session's activate, perform, clone, take or try_take
\* changes no entry but the one keyed by its own identifier, and the result it
\* returns is read from that entry alone; every step is the step of one session.
C13_Isolation ==
  [][/\ \A s \in Uuids : entry(store', s) # entry(store, s) => StepOf(s)
     /\ \A s, t \in Uuids : (StepOf(s) /\ StepOf(t)) => s = t
     /\ \A s \in Uuids :
          /\ (ret'.id = s /\ ret'.op \in {"take", "try_take", "poll"})
               => ret'.res \in {take_result(store, s), Locked, NothingInFlight}
          /\ (ret'.id = s /\ ret'.op = "clone")
               => ret'.res = clone_result(store, s)]_vars

\* a take removed its own entry while the other session's entry stayed in place
C13_Witness ==
  \E s, t \in Uuids :
    /\ s # t
    /\ ret.id = s /\ ret.op = "take" /\ IsOk(ret.res)
    /\ ~contains(store, s)
    /\ contains(store, t) /\ IsOk(store[t])

\* the closure of a take or try_take on session s runs in this step: a take
\* always gets the mutex, a try_take (a poll's included) only when it is free
TakeRuns(s) ==
  /\ TakeStep(s)
  /\ ret'.op = "take" \/ lock = Free

\* C14: a take or try_take whose closure runs removes the session's entry
\* whatever it holds, the Empty placeholder included, and returns Empty for the
\* placeholder; nothing but an activation insert or a completion write puts an
\* entry back, so the next take or try_take to run before such a write finds
\* the identifier absent and returns NotInitialized, not Empty.
C14_TakeDestructive ==
  [][\A s \in Uuids :
       /\ TakeRuns(s) => ~contains(store', s)
       /\ (TakeRuns(s) /\ contains(store, s) /\ store[s] = Empty)
            => ret'.res = Empty
       /\ (TakeRuns(s) /\ ~contains(store, s)) => ret'.res = NotInitialized
       /\ (~contains(store, s) /\ contains(store', s))
            => (act'[s] # act[s] \/ perf'[s] # perf[s])]_vars

\* on a session whose placeholder was registered before activate returned and
\* on which nothing was performed, a take found the identifier already removed
C14_Witness ==
  \E s \in Direct :
    /\ kind[s] = "blocking" /\ act[s] = "done" /\ launched[s] = 0
    /\ ret = Call(s, "take", NotInitialized)

\* C15: a take or try_take returns a completed value only after the completion
\* write of the session's latest operation has executed under the lock, and the
\* value it returns is the one that write stored: the output of that operation.
\* A completed value in the store is always the output of a finished operation
\* of the same session.
C15_WriteBeforeObserve ==
  [][\A s \in Uuids :
       /\ (TakeStep(s) /\ IsOk(ret'.res))
            => /\ writes(s) >= 1
               /\ perf[s].pc = "done"
               /\ ret'.res = Ok(perf[s].fut)
               /\ contains(store, s) /\ store[s] = ret'.res
       /\ (contains(store', s) /\ IsOk(store'[s]))
            => (perf'[s].pc = "done" /\ store'[s] = Ok(perf'[s].fut))
       /\ WriteStep(s) => lock = <<"perform", s>>]_vars

\* the second operation launched through the gate wrote its value and the poll
\* after that write returned it
C15_Witness ==
  \E s \in Gated :
    /\ launched[s] = 2 /\ delivered[s] = 2 /\ perf[s].pc = "done"
    /\ ret = Call(s, "poll", Ok(perf[s].fut))

\* C16: whoever holds the store lock is inside its single map operation: a
\* perform holds it only after its operation has completed, between the await
\* of the mutex and the insert; while a session's operation is still running,
\* or waits for the mutex, that perform is not the lock holder.
C16_NoLockAcrossOperation ==
  \A s \in Uuids :
    /\ perf[s].pc \in {"running", "locking"} => lock # <<"perform", s>>
    /\ lock = <<"perform", s>> <=> perf[s].pc = "holding"
    /\ lock = <<"activate", s>> <=> act[s] = "holding"
    /\ lock = <<"take", s>> <=> call[s] = "taking"
    /\ lock = <<"clone", s>> <=> call[s] = "cloning"

\* one session's operation is still running while the other session's
\* completion write holds the lock
C16_Witness ==
  \E s, t \in Uuids :
    /\ perf[s].pc = "running"
    /\ perf[t].pc = "holding" /\ lock = <<"perform", t>>

\* C17: the gate of a session goes from InFlight to Idle only in a poll step of
\* that session whose try_take found the mutex free and a completed value
\* stored, and returned that value; a request, a poll that got Empty, Locked or
\* NotInitialized, the completion of the operation and its completion write
\* all leave an InFlight gate InFlight.
C17_IdleOnlyByTake ==
  [][\A s \in Gated :
       /\ (gate[s] = "InFlight" /\ gate'[s] = "Idle")
            => /\ PollStep(s) /\ PollSome(ret')
               /\ Ready(s) /\ ret'.res = store[s]
               /\ delivered'[s] = delivered[s] + 1
       /\ (gate[s] = "InFlight" /\ ~(PollStep(s) /\ Ready(s)))
            => gate'[s] = "InFlight"]_vars

\* the poll that returned the value of the first operation put the gate back to Idle
C17_Witness ==
  \E s \in Gated :
    /\ gate[s] = "Idle" /\ launched[s] = 1 /\ delivered[s] = 1
    /\ ret = Call(s, "poll", Ok(perf[s].fut))

\* C18: on a session driven through the gate only, once a poll has returned a
\* completed value, no later poll made while the gate is InFlight gets
\* NotInitialized from its try_take.
C18_NoUnknownAfterTake ==
  [][\A s \in Gated :
       (delivered[s] >= 1 /\ PollStep(s)) => ret'.res # NotInitialized]_vars

\* a step of a clone call on session s: the call, its lock().await, its return
CloneStep(s) ==
  /\ call'[s] # call[s]
  /\ call[s] \in {"clone", "cloning"} \/ call'[s] \in {"clone", "cloning"}

\* C19: no step of a clone call changes the store; clone returns a copy of the
\* completed value when the entry holds one, Empty when it holds the
\* placeholder and NotInitialized when the identifier is absent; the value a
\* clone has returned is still stored, and a take whose closure runs on it
\* returns that value.
C19_CloneNonDestructive ==
  [][\A s \in Direct :
       /\ CloneStep(s) => store' = store
       /\ (ret'.id = s /\ ret'.op = "clone")
            => /\ CloneStep(s)
               /\ (contains(store, s) /\ IsOk(store[s]))
                    => /\ ret'.res = Ok(store[s].v)
                       /\ contains(store', s) /\ store'[s] = ret'.res
                       /\ take_result(store', s) = ret'.res
               /\ (contains(store, s) /\ ~IsOk(store[s])) => ret'.res = Empty
               /\ ~contains(store, s) => ret'.res = NotInitialized
       /\ (ret'.id = s /\ ret'.op = "take" /\ contains(store, s) /\ IsOk(store[s]))
            => ret'.res = store[s]]_vars

\* a clone returned the completed value and the value is still in the store
C19_Witness ==
  \E s \in Direct :
    /\ ret = Call(s, "clone", Ok(perf[s].fut))
    /\ contains(store, s) /\ store[s] = Ok(perf[s].fut)

\* C20: every holder of the store lock releases it, and every blocking
\* operation that waits for the lock (an activation insert, the completion
\* write of an inline or detached perform, a take, a clone) eventually gets it,
\* runs its map operation and returns, whatever try_take polls and detached
\* tasks contend for the lock: no wait for the lock and no hold of it lasts
\* forever.
C20_LockProgress ==
  /\ []<>(lock = Free)
  /\ \A s \in Uuids :
       /\ []<>(act[s] \notin {"locking", "holding"})
       /\ []<>(perf[s].pc \notin {"locking", "holding"})
  /\ \A s \in Direct : []<>(call[s] = "idle")

\* a take has got the lock, run and returned while the other session's
\* activation insert and completion write are both waiting for the lock
C20_Witness ==
  \E s \in Direct, t \in Gated :
    /\ ret.id = s /\ ret.op = "take"
    /\ lock = Free
    /\ act[t] = "locking" /\ perf[t].pc = "locking"

====
